---- MODULE Spec2Model ----
(***************************************************************************)
(* edit_checkpoint (scripts/edit_checkpoint/src/main.rs): the streaming    *)
(* rewrite of a checkpoint tar archive and its three content patchers.     *)
(*                                                                         *)
(* Data representation.                                                    *)
(*   - A string is a sequence of tokens.  A token is an indivisible piece  *)
(*     of text; the separators "/" and "\\" are tokens of their own, so    *)
(*     that split('/') and replace('\\', "/") act on the sequence.  The    *)
(*     empty string is << >>.                                              *)
(*   - A serde_json::Value is a tagged record: [t |-> "null"],             *)
(*     [t |-> "num", v |-> Int], [t |-> "str", v |-> string],              *)
(*     [t |-> "arr", v |-> sequence of values],                            *)
(*     [t |-> "obj", v |-> function from keys to values].                  *)
(*     Option<&Value>::None is the pseudo-value JMissing.                  *)
(*   - A byte string (an entry payload) is [enc, doc]: the bytes that      *)
(*     encoding enc of document doc produces.  enc is "compact"            *)
(*     (serde_json::to_vec), "pretty" (to_vec_pretty), "crit" (the binary  *)
(*     image format of the external codec; the record then has the length  *)
(*     len of the image, which the codec decides) or "raw" (bytes that are *)
(*     no JSON text and no image).                                         *)
(***************************************************************************)
EXTENDS Integers, Sequences, FiniteSets, TLC

-----------------------------------------------------------------------------
(* serde_json::Value *)

JMissing == [t |-> "none"]
JNull == [t |-> "null"]
JNum(n) == [t |-> "num", v |-> n]
JStr(s) == [t |-> "str", v |-> s]
JArr(a) == [t |-> "arr", v |-> a]
JObj(f) == [t |-> "obj", v |-> f]

\* Value::get(key) with a string key: Some only on an object that has the key.
Get(val, key) ==
  IF val.t = "obj" /\ key \in DOMAIN val.v THEN val.v[key] ELSE JMissing

\* value[key] = x on an object: insert or replace the key.
SetKey(val, key, x) ==
  JObj([k \in (DOMAIN val.v) \cup {key} |-> IF k = key THEN x ELSE val.v[k]])

\* Value::as_u64 is Some: a number that is a non-negative integer.
IsU64(val) == val.t = "num" /\ val.v >= 0

\* Value::is_number
IsNumber(val) == val.t = "num"

\* Option<&Value>.and_then(as_str) == Some(s)
StrIs(val, s) == val.t = "str" /\ val.v = s

\* Option<&Value>.and_then(as_str).unwrap_or("")
StrOrEmpty(val) == IF val.t = "str" THEN val.v ELSE << >>

\* Option<&Value>.and_then(as_u64).unwrap_or(0)
U64OrZero(val) == IF IsU64(val) THEN val.v ELSE 0

-----------------------------------------------------------------------------
(* The image patcher *)

S_INETSK == <<"INETSK">>
S_AF_INET == <<"AF_INET">>
S_INET == <<"INET">>
S_WILD4 == <<"0.0.0.0">>
S_WILD6 == <<"::">>
S_ZERO == <<"0">>

\* Mutant of IsSpecificElem: only the IPv4 text is taken as a wildcard.
IsSpecificElem_V4TextOnly(a) ==
  IF IsU64(a) THEN a.v # 0
  ELSE IF a.t = "str" THEN a.v # << >> /\ a.v # S_WILD4
       ELSE FALSE

\* The closure of is_specific_addr: one element of src_addr.
IsSpecificElem(a) ==
  IF IsU64(a) THEN a.v # 0
  ELSE IF a.t = "str"
       THEN a.v # << >> /\ a.v # S_WILD4 /\ a.v # S_WILD6 /\ a.v # S_ZERO
       ELSE FALSE

is_specific_addr(addrs) ==
  \E i \in 1..Len(addrs) : IsSpecificElem(addrs[i])

\* Mutant of is_inet4: any family that is present is accepted.
is_inet4_AnyFamily(isk) ==
  LET family_str == StrOrEmpty(Get(isk, "family"))
      family_num == U64OrZero(Get(isk, "family"))
  IN family_str # << >> \/ family_num # 0

is_inet4(isk) ==
  LET family_str == StrOrEmpty(Get(isk, "family"))
      family_num == U64OrZero(Get(isk, "family"))
  IN family_str = S_AF_INET \/ family_str = S_INET \/ family_num = 2

\* The guards of one iteration of the loop over entries: TRUE when the
\* iteration reaches the assignment to isk["src_addr"].
EntryIsPatched(entry) ==
  /\ StrIs(Get(entry, "type"), S_INETSK)
  /\ Get(entry, "isk") # JMissing
  /\ is_inet4(Get(entry, "isk"))
  /\ Get(Get(entry, "isk"), "src_addr").t = "arr"
  /\ is_specific_addr(Get(Get(entry, "isk"), "src_addr").v)

\* first().map_or(true, |v| v.is_number())
WasInteger(addrs) == IF Len(addrs) = 0 THEN TRUE ELSE IsNumber(addrs[1])

\* Mutant of WildcardFor: the socket is bound to new_addr.
WildcardFor_NewAddr(addrs, new_addr) ==
  IF WasInteger(addrs) THEN JArr(<<JNum(0)>>) ELSE JArr(<<JStr(new_addr)>>)

\* The value assigned to isk["src_addr"].
WildcardFor(addrs, new_addr) ==
  IF WasInteger(addrs) THEN JArr(<<JNum(0)>>) ELSE JArr(<<JStr(S_WILD4)>>)

\* One iteration of the loop over entries.
PatchImgEntry(entry, new_addr) ==
  IF EntryIsPatched(entry)
  THEN LET isk == Get(entry, "isk")
       IN SetKey(entry, "isk",
                 SetKey(isk, "src_addr",
                        WildcardFor(Get(isk, "src_addr").v, new_addr)))
  ELSE entry

\* patch_files_img_json: the mutated document, the returned flag and the
\* count that is logged.
patch_files_img_json(data, new_addr) ==
  IF Get(data, "entries").t # "arr"
  THEN [doc |-> data, updated |-> FALSE, count |-> 0]
  ELSE LET entries == Get(data, "entries").v
           hit == {i \in 1..Len(entries) : EntryIsPatched(entries[i])}
       IN [doc |-> SetKey(data, "entries",
                     JArr([i \in 1..Len(entries) |->
                             PatchImgEntry(entries[i], new_addr)])),
           updated |-> hit # {},
           count |-> Cardinality(hit)]

-----------------------------------------------------------------------------
(* The network-status patcher *)

SLASH == "/"
S_24 == <<"24">>

\* str::split(sep): the segments between separators, at least one.
RECURSIVE SplitFrom(_, _, _, _)
SplitFrom(s, sep, i, cur) ==
  IF i > Len(s) THEN <<cur>>
  ELSE IF s[i] = sep THEN <<cur>> \o SplitFrom(s, sep, i + 1, << >>)
  ELSE SplitFrom(s, sep, i + 1, Append(cur, s[i]))

Split(s, sep) == SplitFrom(s, sep, 1, << >>)

\* Mutant of PrefixOf: the prefix length is always the default.
PrefixOf_Default(old) == S_24

\* old.split('/').nth(1).unwrap_or("24")
PrefixOf(old) ==
  LET parts == Split(old, SLASH)
  IN IF Len(parts) >= 2 THEN parts[2] ELSE S_24

\* format!("{}/{}", new_addr, prefix)
FormatAddr(new_addr, prefix) == new_addr \o <<SLASH>> \o prefix

\* The body of the loop over ips.
PatchIp(ip, new_addr) ==
  IF Get(ip, "address") # JMissing
  THEN SetKey(ip, "address",
              JStr(FormatAddr(new_addr,
                              PrefixOf(StrOrEmpty(Get(ip, "address"))))))
  ELSE ip

\* The body of the loop over the top-level array.
PatchIface(entry, new_addr) ==
  IF Get(entry, "ips").t = "arr"
  THEN LET ips == Get(entry, "ips").v
       IN SetKey(entry, "ips",
                 JArr([i \in 1..Len(ips) |-> PatchIp(ips[i], new_addr)]))
  ELSE entry

\* patch_network_status between the parse and the serialization.
PatchNetDoc(data, new_addr) ==
  IF data.t = "arr"
  THEN JArr([i \in 1..Len(data.v) |-> PatchIface(data.v[i], new_addr)])
  ELSE data

-----------------------------------------------------------------------------
(* The config patcher *)

S_IPFLAG == <<"--ip">>

\* Mutant of PatchCmdFrom: the flag is looked for in the sequence as it was
\* before the scan, not in the sequence being overwritten.
PatchCmdFrom_Snapshot(cmd, i, new_addr) ==
  [j \in 1..Len(cmd) |->
     IF j > i /\ StrIs(cmd[j - 1], S_IPFLAG) THEN JStr(new_addr) ELSE cmd[j]]

\* The while loop over createCommand, from index i (1-based) on, in place.
RECURSIVE PatchCmdFrom(_, _, _)
PatchCmdFrom(cmd, i, new_addr) ==
  IF i > Len(cmd) THEN cmd
  ELSE IF StrIs(cmd[i], S_IPFLAG) /\ i + 1 <= Len(cmd)
       THEN PatchCmdFrom([cmd EXCEPT ![i + 1] = JStr(new_addr)], i + 1, new_addr)
       ELSE PatchCmdFrom(cmd, i + 1, new_addr)

\* if data.get("staticIP").is_some() { data["staticIP"] = new_addr }
PatchStaticIP(data, new_addr) ==
  IF Get(data, "staticIP") # JMissing
  THEN SetKey(data, "staticIP", JStr(new_addr))
  ELSE data

\* if let Some(cmd) = data.get_mut("createCommand").as_array_mut() { ... }
PatchCreateCommand(data, new_addr) ==
  IF Get(data, "createCommand").t = "arr"
  THEN SetKey(data, "createCommand",
              JArr(PatchCmdFrom(Get(data, "createCommand").v, 1, new_addr)))
  ELSE data

\* patch_config_dump between the parse and the serialization.
PatchCfgDoc(data, new_addr) ==
  PatchCreateCommand(PatchStaticIP(data, new_addr), new_addr)

-----------------------------------------------------------------------------
(* Byte strings *)

Bytes(enc, doc) == [enc |-> enc, doc |-> doc]

\* serde_json::from_slice succeeds: the bytes are JSON text.
ParsesAsJson(content) == content.enc \in {"compact", "pretty"}

\* The sum of the values of a function with a finite domain.
RECURSIVE SumFun(_)
SumFun(f) ==
  IF DOMAIN f = {} THEN 0
  ELSE LET k == CHOOSE x \in DOMAIN f : TRUE
       IN f[k] + SumFun([j \in (DOMAIN f) \ {k} |-> f[j]])

\* A text is a sequence of tokens. A token is a run of ASCII characters or
\* the name of one character by its code point: a control character or a
\* non-ASCII character. These are the named characters of the model's
\* texts.

\* The control characters serde_json writes as \b \t \n \f \r.
ShortEscapes == {"U+0008", "U+0009", "U+000A", "U+000C", "U+000D"}

\* The control characters serde_json writes as \u00XX.
LongEscapes ==
  {"U+0000", "U+0001", "U+0002", "U+0003", "U+0004", "U+0005", "U+0006",
   "U+0007", "U+000B", "U+000E", "U+000F", "U+0010", "U+0011", "U+0012",
   "U+0013", "U+0014", "U+0015", "U+0016", "U+0017", "U+0018", "U+0019",
   "U+001A", "U+001B", "U+001C", "U+001D", "U+001E", "U+001F"}

\* The non-ASCII characters, by their size in UTF-8.
TwoByteChars == {"U+00E9", "U+00FC", "U+00DF"}
ThreeByteChars == {"U+20AC"}
FourByteChars == {"U+1F600"}

\* The bytes serde_json writes for one character of an ASCII token: a
\* backslash and a letter for the quote, the backslash and the control
\* characters a TLA+ string can hold, the character itself otherwise.
EscapedLen(c) ==
  IF c \in {"\"", "\\", "\n", "\t", "\r", "\f"} THEN 2 ELSE 1

\* str::len of one token: the number of its UTF-8 bytes.
StrLen(tok) ==
  IF tok \in FourByteChars THEN 4
  ELSE IF tok \in ThreeByteChars THEN 3
  ELSE IF tok \in TwoByteChars THEN 2
  ELSE IF tok \in ShortEscapes \cup LongEscapes THEN 1
  ELSE Len(tok)

\* The bytes of the characters i.. of an ASCII token inside a JSON string.
RECURSIVE JsonStrLenFrom(_, _)
JsonStrLenFrom(tok, i) ==
  IF i > Len(tok) THEN 0
  ELSE EscapedLen(SubSeq(tok, i, i)) + JsonStrLenFrom(tok, i + 1)

\* The bytes of one token inside a JSON string: a control character is
\* written as its two-byte or its six-byte escape, a non-ASCII character
\* as it is, in UTF-8.
JsonStrLen(tok) ==
  IF tok \in ShortEscapes THEN 2
  ELSE IF tok \in LongEscapes THEN 6
  ELSE IF tok \in TwoByteChars \cup ThreeByteChars \cup FourByteChars
  THEN StrLen(tok)
  ELSE JsonStrLenFrom(tok, 1)

\* str::len of a string: its length in bytes.
TextLen(s) == SumFun([i \in 1..Len(s) |-> StrLen(s[i])])

\* The length of a string as serde_json writes it: the quotes and the
\* escaped text.
JsonTextLen(s) == 2 + SumFun([i \in 1..Len(s) |-> JsonStrLen(s[i])])

RECURSIVE Digits(_)
Digits(n) == IF n < 10 THEN 1 ELSE 1 + Digits(n \div 10)

NumLen(n) == IF n < 0 THEN 1 + Digits(-n) ELSE Digits(n)

\* The length of serde_json::to_vec(doc).
RECURSIVE CompactLen(_)
CompactLen(val) ==
  CASE val.t = "num" -> NumLen(val.v)
    [] val.t = "str" -> JsonTextLen(val.v)
    [] val.t = "arr" ->
         2 + SumFun([i \in 1..Len(val.v) |-> CompactLen(val.v[i])])
           + (IF Len(val.v) > 1 THEN Len(val.v) - 1 ELSE 0)
    [] val.t = "obj" ->
         2 + SumFun([k \in DOMAIN val.v |->
                      JsonTextLen(<<k>>) + 1 + CompactLen(val.v[k])])
           + (IF Cardinality(DOMAIN val.v) > 1
              THEN Cardinality(DOMAIN val.v) - 1 ELSE 0)
    [] OTHER -> 4

\* The length of serde_json::to_vec_pretty(doc) at nesting depth d: one
\* element per line, indented by two spaces per level.
RECURSIVE PrettyLen(_, _)
PrettyLen(val, d) ==
  CASE val.t = "num" -> NumLen(val.v)
    [] val.t = "str" -> JsonTextLen(val.v)
    [] val.t = "arr" ->
         IF Len(val.v) = 0 THEN 2
         ELSE 1 + SumFun([i \in 1..Len(val.v) |->
                            1 + 2 * (d + 1) + PrettyLen(val.v[i], d + 1)])
                + (Len(val.v) - 1) + 1 + 2 * d + 1
    [] val.t = "obj" ->
         IF DOMAIN val.v = {} THEN 2
         ELSE 1 + SumFun([k \in DOMAIN val.v |->
                            1 + 2 * (d + 1) + JsonTextLen(<<k>>) + 2
                              + PrettyLen(val.v[k], d + 1)])
                + (Cardinality(DOMAIN val.v) - 1) + 1 + 2 * d + 1
    [] OTHER -> 4

\* An image in the binary format of the external codec: the document it
\* decodes to and its length in bytes.
CritImage(doc, n) == [enc |-> "crit", doc |-> doc, len |-> n]

\* The lengths of the image files the codec writes in the model's runs. The
\* length of the image it writes for a document is the codec's choice; for
\* each image of the model's archives (of 34 and of 40 bytes) these are the
\* length of the input image and another one.
CritLens == {34, 40}

\* Vec::len / slice::len of a byte string.
ByteLen(bytes) ==
  CASE bytes.enc = "compact" -> CompactLen(bytes.doc)
    [] bytes.enc = "pretty" -> PrettyLen(bytes.doc, 0)
    [] bytes.enc = "crit" -> bytes.len
    [] OTHER -> TextLen(bytes.doc.v)

\* patch_network_status: Ok(bytes) or Err.
patch_network_status(content, new_addr) ==
  IF ParsesAsJson(content)
  THEN [ok |-> TRUE, bytes |-> Bytes("pretty", PatchNetDoc(content.doc, new_addr))]
  ELSE [ok |-> FALSE, err |-> "parse network.status"]

\* patch_config_dump: Ok(bytes) or Err.
patch_config_dump(content, new_addr) ==
  IF ParsesAsJson(content)
  THEN [ok |-> TRUE, bytes |-> Bytes("compact", PatchCfgDoc(content.doc, new_addr))]
  ELSE [ok |-> FALSE, err |-> "parse config.dump"]

-----------------------------------------------------------------------------
(* State *)

VARIABLES
  fn_step,      \* patcher under test: "idle", "input", "patched", "repatched"
  fn_in,        \* its input document (image) or input bytes (status, config)
  fn_addr,      \* its new_addr argument
  fn_out,       \* its result
  fn_again,     \* the result of applying it to its own output
  pc,           \* position of run()
  new_addr,     \* run()'s new_addr argument
  orig,         \* the archive at tar_path when run() was called
  disk_tar,     \* the file at tar_path
  disk_new,     \* the file at tar_path + ".new"
  builder,      \* the entries appended to the tar builder, in order
  idx,          \* number of entries taken from the entries iterator
  content,      \* the content buffer of the current entry
  decoded,      \* the file decoded.json in the temporary directory, if any
  found_files_img,
  calls,        \* the codec invocations so far, each with its exit status
  err           \* the Err run() returned, "" while there is none

fn_vars == <<fn_step, fn_in, fn_addr, fn_out, fn_again>>
run_vars == <<pc, new_addr, orig, disk_tar, disk_new, builder, idx, content,
              decoded, found_files_img, calls, err>>
vars == <<fn_step, fn_in, fn_addr, fn_out, fn_again,
          pc, new_addr, orig, disk_tar, disk_new, builder, idx, content,
          decoded, found_files_img, calls, err>>

\* All sequences over S of length at most n.
SeqsUpTo(S, n) == UNION {[1..k -> S] : k \in 0..n}

\* A tar file on disk: the entries it holds whole, whether the bytes of a
\* further, incomplete entry follow them (torn), and whether the two
\* terminating zero blocks close it (finished).
NoFile ==
  [exists |-> FALSE, entries |-> << >>, torn |-> FALSE, finished |-> FALSE]

\* decoded.json does not exist.
NoDecoded == JMissing

\* run() is not being executed (the patcher specifications).
RunIdle ==
  /\ pc = "idle"
  /\ new_addr = << >>
  /\ orig = << >>
  /\ disk_tar = NoFile
  /\ disk_new = NoFile
  /\ builder = << >>
  /\ idx = 0
  /\ content = Bytes("raw", JStr(<< >>))
  /\ decoded = NoDecoded
  /\ found_files_img = FALSE
  /\ calls = << >>
  /\ err = ""

\* No patcher is under test (the specification of run()).
FnIdle ==
  /\ fn_step = "idle"
  /\ fn_in = JNull
  /\ fn_addr = << >>
  /\ fn_out = JNull
  /\ fn_again = JNull

-----------------------------------------------------------------------------
(* The image patcher applied to bounded documents *)

MaxAddrs == 2
MaxRecs == 2

NewAddrs == {<<"10.1.1.9">>, <<"fd00::9">>}

AddrElems ==
  {JNum(0), JNum(167772165), JNum(-1), JNull,
   JStr(S_WILD4), JStr(S_WILD6), JStr(S_ZERO), JStr(<< >>),
   JStr(<<"10.0.0.5">>)}

\* src_addr: absent, not an array, or an array of at most MaxAddrs elements.
SrcAddrVals ==
  {JMissing, JNum(5)} \cup {JArr(a) : a \in SeqsUpTo(AddrElems, MaxAddrs)}

\* family: absent, numeric or symbolic.
FamilyVals ==
  {JMissing, JNum(2), JNum(10), JStr(S_AF_INET), JStr(S_INET),
   JStr(<<"AF_INET6">>)}

\* An object from a function that maps absent fields to JMissing.
ObjOf(f) == JObj([k \in {k \in DOMAIN f : f[k] # JMissing} |-> f[k]])

MkIsk(family, src_addr) ==
  ObjOf([family |-> family, src_addr |-> src_addr, src_port |-> JNum(8080)])

MkRec(type, isk) ==
  ObjOf([type |-> type, id |-> JNum(7), isk |-> isk])

IskVals == {MkIsk(f, s) : f \in FamilyVals, s \in SrcAddrVals}

\* Every record shape: a socket-inet record over every isk, and records
\* with another tag, no tag, no isk or an isk that is no object.
RecsWide ==
  {MkRec(JStr(S_INETSK), i) : i \in IskVals \cup {JMissing, JNum(3)}}
  \cup {MkRec(t, MkIsk(f, JArr(<<e>>))) :
          t \in {JStr(<<"REG">>), JStr(<<"UNIXSK">>), JMissing, JNum(1)},
          f \in {JNum(2), JStr(S_AF_INET)},
          e \in {JNum(167772165), JStr(<<"10.0.0.5">>)}}

\* The records of which longer documents are made.
RecsCore ==
  {MkRec(JStr(S_INETSK), MkIsk(JNum(2), JArr(<<JNum(167772165)>>))),
   MkRec(JStr(S_INETSK), MkIsk(JStr(S_AF_INET), JArr(<<JStr(<<"10.0.0.5">>)>>))),
   MkRec(JStr(S_INETSK), MkIsk(JNum(2), JArr(<<JNum(0)>>))),
   MkRec(JStr(S_INETSK), MkIsk(JNum(10), JArr(<<JStr(<<"fd00::5">>)>>))),
   MkRec(JStr(<<"REG">>), JMissing)}

MkImgDoc(recs) == JObj([magic |-> JStr(<<"FILES">>), entries |-> JArr(recs)])

ImgDocs ==
  {MkImgDoc(<<r>>) : r \in RecsWide}
  \cup {MkImgDoc(rs) : rs \in SeqsUpTo(RecsCore, MaxRecs)}
  \cup {JObj([magic |-> JStr(<<"FILES">>)]),
        JObj([magic |-> JStr(<<"FILES">>), entries |-> JNum(0)]),
        JArr(<< >>)}

NoImgResult == [doc |-> JNull, updated |-> FALSE, count |-> 0]

InitImg ==
  /\ fn_step = "input"
  /\ fn_in \in ImgDocs
  /\ fn_addr \in NewAddrs
  /\ fn_out = NoImgResult
  /\ fn_again = NoImgResult
  /\ RunIdle

ApplyImg ==
  /\ fn_step = "input"
  /\ fn_out' = patch_files_img_json(fn_in, fn_addr)
  /\ fn_step' = "patched"
  /\ UNCHANGED <<fn_in, fn_addr, fn_again>>
  /\ UNCHANGED run_vars

ReapplyImg ==
  /\ fn_step = "patched"
  /\ fn_again' = patch_files_img_json(fn_out.doc, fn_addr)
  /\ fn_step' = "repatched"
  /\ UNCHANGED <<fn_in, fn_addr, fn_out>>
  /\ UNCHANGED run_vars

NextImg == ApplyImg \/ ReapplyImg

SpecImg == InitImg /\ [][NextImg]_vars

-----------------------------------------------------------------------------
(* The image patcher: properties *)

\* The records of a document: its entries array, << >> when it has none.
RecsOf(doc) ==
  IF doc.t = "obj" /\ "entries" \in DOMAIN doc.v /\ doc.v["entries"].t = "arr"
  THEN doc.v["entries"].v ELSE << >>

\* The record carries the socket-inet tag.
TaggedInetSk(rec) ==
  rec.t = "obj" /\ "type" \in DOMAIN rec.v /\ rec.v["type"] = JStr(<<"INETSK">>)

\* The family field of the record's isk sub-record, JMissing when there is none.
FamilyOf(rec) ==
  IF rec.t = "obj" /\ "isk" \in DOMAIN rec.v /\ rec.v["isk"].t = "obj"
     /\ "family" \in DOMAIN rec.v["isk"].v
  THEN rec.v["isk"].v["family"] ELSE JMissing

\* The family is IPv4: the numeric code 2, or a symbolic name of AF_INET
\* (the codec's dictionary prints it as "INET", other tools as "AF_INET").
FamilyIsIPv4(rec) ==
  FamilyOf(rec) \in {JNum(2), JStr(<<"AF_INET">>), JStr(<<"INET">>)}

\* The bound-address sequence of the record, << >> when it has none.
BoundAddrs(rec) ==
  IF rec.t = "obj" /\ "isk" \in DOMAIN rec.v /\ rec.v["isk"].t = "obj"
     /\ "src_addr" \in DOMAIN rec.v["isk"].v
     /\ rec.v["isk"].v["src_addr"].t = "arr"
  THEN rec.v["isk"].v["src_addr"].v ELSE << >>

WildcardAddrs == {JNum(0), JStr(<<"0.0.0.0">>), JStr(<<"::">>), JStr(<<"0">>)}

\* An address: an unsigned number or a non-empty text.
IsAddr(a) == (a.t = "num" /\ a.v >= 0) \/ (a.t = "str" /\ a.v # << >>)

\* A specific address: an address that is no wildcard.
SpecificAddr(a) == IsAddr(a) /\ a \notin WildcardAddrs

\* An IPv4 socket-inet record bound to at least one specific address.
SpecificBinding(rec) ==
  /\ TaggedInetSk(rec)
  /\ FamilyIsIPv4(rec)
  /\ \E i \in 1..Len(BoundAddrs(rec)) : SpecificAddr(BoundAddrs(rec)[i])

AllOf(addrs, tag) == \A i \in 1..Len(addrs) : addrs[i].t = tag

\* C5: every IPv4 socket-inet record bound to a specific address gets the
\* bound-address sequence of exactly one wildcard element, [0] when the
\* original elements are integers and ["0.0.0.0"] when they are strings,
\* whatever new_address is (the expected sequence does not mention it).
C5_SpecificBecomesWildcard ==
  fn_step \in {"patched", "repatched"} =>
    /\ Len(RecsOf(fn_out.doc)) = Len(RecsOf(fn_in))
    /\ \A i \in 1..Len(RecsOf(fn_in)) :
         SpecificBinding(RecsOf(fn_in)[i]) =>
           LET old == BoundAddrs(RecsOf(fn_in)[i])
               new == BoundAddrs(RecsOf(fn_out.doc)[i])
           IN /\ new \in {<<JNum(0)>>, <<JStr(<<"0.0.0.0">>)>>}
              /\ AllOf(old, "num") => new = <<JNum(0)>>
              /\ AllOf(old, "str") => new = <<JStr(<<"0.0.0.0">>)>>

\* C5 witness: a record bound to the textual 10.0.0.5 next to a wildcard
\* has been rewritten to ["0.0.0.0"].
C5_Witness ==
  /\ fn_step = "patched"
  /\ \E i \in 1..Len(RecsOf(fn_in)) :
       /\ SpecificBinding(RecsOf(fn_in)[i])
       /\ BoundAddrs(RecsOf(fn_in)[i]) = <<JStr(<<"0.0.0.0">>), JStr(<<"10.0.0.5">>)>>
       /\ BoundAddrs(RecsOf(fn_out.doc)[i]) = <<JStr(<<"0.0.0.0">>)>>

\* A document without specific bindings.
NoSpecificBinding(doc) ==
  \A i \in 1..Len(RecsOf(doc)) : ~SpecificBinding(RecsOf(doc)[i])

\* A record whose bound addresses are all wildcards.
AllWildcard(rec) ==
  \A i \in 1..Len(BoundAddrs(rec)) : BoundAddrs(rec)[i] \in WildcardAddrs

\* C6: a record whose bound addresses are all wildcard is left unchanged; a
\* document without specific bindings is returned unchanged with zero
\* patched records (false); and the patcher applied to its own output
\* changes nothing and returns false.
C6_WildcardUntouchedIdempotent ==
  /\ fn_step \in {"patched", "repatched"} =>
       /\ \A i \in 1..Len(RecsOf(fn_in)) :
            AllWildcard(RecsOf(fn_in)[i]) =>
              RecsOf(fn_out.doc)[i] = RecsOf(fn_in)[i]
       /\ NoSpecificBinding(fn_in) =>
            fn_out = [doc |-> fn_in, updated |-> FALSE, count |-> 0]
  /\ fn_step = "repatched" =>
       fn_again = [doc |-> fn_out.doc, updated |-> FALSE, count |-> 0]

\* C6 witness: the patcher changed a document, and applied again to its
\* output it changed nothing and returned false.
C6_Witness ==
  /\ fn_step = "repatched"
  /\ fn_out.updated
  /\ fn_out.doc # fn_in
  /\ fn_again.doc = fn_out.doc
  /\ ~fn_again.updated

\* rec with the bound-address sequence of its isk sub-record set to addrs.
WithBoundAddrs(rec, addrs) ==
  JObj([rec.v EXCEPT !["isk"] =
          JObj([rec.v["isk"].v EXCEPT !["src_addr"] = JArr(addrs)])])

\* C10: only IPv4 socket-inet records are modified; a record with another
\* tag or another family is unchanged and not counted; a modified record
\* differs from the original in its bound-address sequence only; nothing
\* else of the document changes.
C10_OnlyIPv4InetSkTouched ==
  fn_step \in {"patched", "repatched"} =>
    LET old == RecsOf(fn_in)
        new == RecsOf(fn_out.doc)
        changed == {i \in 1..Len(old) : new[i] # old[i]}
    IN /\ Len(new) = Len(old)
       /\ \A i \in 1..Len(old) :
            ~(TaggedInetSk(old[i]) /\ FamilyIsIPv4(old[i])) => new[i] = old[i]
       /\ \A i \in changed :
            new[i] = WithBoundAddrs(old[i], BoundAddrs(new[i]))
       /\ fn_out.count = Cardinality(changed)
       /\ fn_out.updated = (changed # {})
       /\ old = << >> => fn_out.doc = fn_in
       /\ old # << >> =>
            fn_out.doc = JObj([fn_in.v EXCEPT !["entries"] = JArr(new)])

\* C10 witness: in one document an IPv6 socket bound to a specific address
\* stayed as it was while an IPv4 socket with the symbolic family was patched.
C10_Witness ==
  /\ fn_step = "patched"
  /\ fn_out.count = 1
  /\ \E i, j \in 1..Len(RecsOf(fn_in)) :
       /\ TaggedInetSk(RecsOf(fn_in)[i])
       /\ FamilyOf(RecsOf(fn_in)[i]) = JNum(10)
       /\ BoundAddrs(RecsOf(fn_in)[i]) = <<JStr(<<"fd00::5">>)>>
       /\ RecsOf(fn_out.doc)[i] = RecsOf(fn_in)[i]
       /\ FamilyOf(RecsOf(fn_in)[j]) = JStr(<<"AF_INET">>)
       /\ RecsOf(fn_out.doc)[j] # RecsOf(fn_in)[j]

-----------------------------------------------------------------------------
(* The network-status patcher applied to bounded documents *)

MaxAddrTokens == 3
MaxIps == 2
MaxIfaces == 2

AddrTokens == {"192.168.12.2", SLASH, "24"}

\* The address field: absent, no string, or a string of address tokens.
AddressVals ==
  {JMissing, JNull, JNum(4)}
  \cup {JStr(a) : a \in SeqsUpTo(AddrTokens, MaxAddrTokens)}

MkIp(address) ==
  ObjOf([address |-> address, gateway |-> JStr(<<"192.168.12.1">>)])

IpsCore ==
  {MkIp(JStr(<<"192.168.12.2", SLASH, "24">>)),
   MkIp(JStr(<<"fd00::2", SLASH, "64">>)),
   MkIp(JMissing)}

\* The ips field: absent, no array, one address record of any shape, an
\* element that is no object, or several records.
IpsVals ==
  {JMissing, JNull, JArr(<<JStr(<<"192.168.12.2">>)>>)}
  \cup {JArr(<<MkIp(a)>>) : a \in AddressVals}
  \cup {JArr(ips) : ips \in SeqsUpTo(IpsCore, MaxIps)}

MkIface(ips) == ObjOf([ips |-> ips, interface |-> JStr(<<"eth0">>)])

IfacesCore ==
  {MkIface(JArr(<<MkIp(JStr(<<"192.168.12.2", SLASH, "24">>))>>)),
   MkIface(JArr(<<MkIp(JStr(<<"192.168.12.2">>)),
                  MkIp(JStr(<<"fd00::2", SLASH, "64">>))>>)),
   MkIface(JMissing),
   JNum(1)}

NetDocs ==
  {JArr(<<MkIface(ips)>>) : ips \in IpsVals}
  \cup {JArr(ifs) : ifs \in SeqsUpTo(IfacesCore, MaxIfaces)}
  \cup {JObj([ips |-> JArr(<<MkIp(JStr(<<"192.168.12.2", SLASH, "24">>))>>)])}

JsonInputs(docs) ==
  {Bytes(enc, d) : enc \in {"compact", "pretty"}, d \in docs}
  \cup {Bytes("raw", JStr(<<"not json">>))}

NoBytesResult == [ok |-> FALSE, err |-> ""]

InitNet ==
  /\ fn_step = "input"
  /\ fn_in \in JsonInputs(NetDocs)
  /\ fn_addr \in NewAddrs
  /\ fn_out = NoBytesResult
  /\ fn_again = NoBytesResult
  /\ RunIdle

ApplyNet ==
  /\ fn_step = "input"
  /\ fn_out' = patch_network_status(fn_in, fn_addr)
  /\ fn_step' = "patched"
  /\ UNCHANGED <<fn_in, fn_addr, fn_again>>
  /\ UNCHANGED run_vars

\* A second run of the tool sees the bytes the first one wrote.
ReapplyNet ==
  /\ fn_step = "patched"
  /\ fn_out.ok
  /\ fn_again' = patch_network_status(fn_out.bytes, fn_addr)
  /\ fn_step' = "repatched"
  /\ UNCHANGED <<fn_in, fn_addr, fn_out>>
  /\ UNCHANGED run_vars

NextNet == ApplyNet \/ ReapplyNet

SpecNet == InitNet /\ [][NextNet]_vars

\* The positions of the separator in a string.
SlashesOf(s) == {i \in 1..Len(s) : s[i] = "/"}

Least(S) == CHOOSE i \in S : \A j \in S : i <= j

\* The prefix length of an address/prefix string: the field that follows
\* the (first) separator; "24" for a value with no separator or no string.
PrefixPart(old) ==
  IF old.t # "str" \/ SlashesOf(old.v) = {} THEN <<"24">>
  ELSE LET p == Least(SlashesOf(old.v))
           later == {i \in SlashesOf(old.v) : i > p}
           q == IF later = {} THEN Len(old.v) + 1 ELSE Least(later)
       IN SubSeq(old.v, p + 1, q - 1)

HasField(val, key) == val.t = "obj" /\ key \in DOMAIN val.v

\* The address record as the claim expects it after the patch.
ExpectedIp(ip, addr) ==
  IF HasField(ip, "address")
  THEN JObj([ip.v EXCEPT !["address"] =
               JStr(addr \o <<"/">> \o PrefixPart(ip.v["address"]))])
  ELSE ip

\* The interface record as the claim expects it after the patch.
ExpectedIface(iface, addr) ==
  IF HasField(iface, "ips") /\ iface.v["ips"].t = "arr"
  THEN JObj([iface.v EXCEPT !["ips"] =
               JArr([j \in 1..Len(iface.v["ips"].v) |->
                       ExpectedIp(iface.v["ips"].v[j], addr)])])
  ELSE iface

\* C7: every address field becomes new_address "/" old prefix length ("24"
\* when the old value has none); every other field, and the number and
\* order of interface and address records, are as in the input; an empty
\* top-level sequence comes back unchanged, without error.
C7_AddressRebuiltPrefixKept ==
  (fn_step \in {"patched", "repatched"} /\ fn_in.enc \in {"compact", "pretty"}) =>
    /\ fn_out.ok
    /\ fn_in.doc.t = "arr" =>
         /\ fn_out.bytes.doc.t = "arr"
         /\ Len(fn_out.bytes.doc.v) = Len(fn_in.doc.v)
         /\ \A i \in 1..Len(fn_in.doc.v) :
              fn_out.bytes.doc.v[i] = ExpectedIface(fn_in.doc.v[i], fn_addr)
    /\ fn_in.doc = JArr(<< >>) => fn_out.bytes.doc = JArr(<< >>)

\* The address field of the first address record of an interface record.
FirstAddress(iface) ==
  IF HasField(iface, "ips") /\ iface.v["ips"].t = "arr"
     /\ Len(iface.v["ips"].v) >= 1 /\ HasField(iface.v["ips"].v[1], "address")
  THEN iface.v["ips"].v[1].v["address"] ELSE JMissing

\* C7 witness: "192.168.12.2/24" became "10.1.1.9/24" and, in the same
\* document, an address without prefix part became "10.1.1.9/24" too.
C7_Witness ==
  /\ fn_step = "patched"
  /\ fn_addr = <<"10.1.1.9">>
  /\ fn_out.ok
  /\ fn_in.doc.t = "arr"
  /\ \E i, j \in 1..Len(fn_in.doc.v) :
       /\ FirstAddress(fn_in.doc.v[i]) = JStr(<<"192.168.12.2", "/", "24">>)
       /\ FirstAddress(fn_out.bytes.doc.v[i]) = JStr(<<"10.1.1.9", "/", "24">>)
       /\ FirstAddress(fn_in.doc.v[j]) = JStr(<<"192.168.12.2">>)
       /\ FirstAddress(fn_out.bytes.doc.v[j]) = JStr(<<"10.1.1.9", "/", "24">>)

-----------------------------------------------------------------------------
(* The config patcher applied to bounded documents *)

MaxCmd == 4

\* new_addr may be any non-empty argument, the flag token included.
CfgAddrs == {<<"10.1.1.9">>, S_IPFLAG}

CmdElems ==
  {JStr(S_IPFLAG), JStr(<<"192.168.12.2">>), JStr(<<"podman">>), JNum(0)}

\* createCommand: absent, no array, or an array of at most MaxCmd elements.
CreateCommandVals ==
  {JMissing, JStr(<<"podman">>)}
  \cup {JArr(c) : c \in SeqsUpTo(CmdElems, MaxCmd)}

\* staticIP: absent, a string or null.
StaticIPVals == {JMissing, JStr(<<"192.168.12.2">>), JNull}

MkConfig(staticIP, createCommand) ==
  ObjOf([staticIP |-> staticIP, createCommand |-> createCommand,
         name |-> JStr(<<"web">>)])

CfgDocs ==
  {MkConfig(ip, cmd) : ip \in StaticIPVals, cmd \in CreateCommandVals}
  \cup {JArr(<<JStr(S_IPFLAG), JStr(<<"192.168.12.2">>)>>)}

InitCfg ==
  /\ fn_step = "input"
  /\ fn_in \in JsonInputs(CfgDocs)
  /\ fn_addr \in CfgAddrs
  /\ fn_out = NoBytesResult
  /\ fn_again = NoBytesResult
  /\ RunIdle

ApplyCfg ==
  /\ fn_step = "input"
  /\ fn_out' = patch_config_dump(fn_in, fn_addr)
  /\ fn_step' = "patched"
  /\ UNCHANGED <<fn_in, fn_addr, fn_again>>
  /\ UNCHANGED run_vars

\* A second run of the tool sees the bytes the first one wrote.
ReapplyCfg ==
  /\ fn_step = "patched"
  /\ fn_out.ok
  /\ fn_again' = patch_config_dump(fn_out.bytes, fn_addr)
  /\ fn_step' = "repatched"
  /\ UNCHANGED <<fn_in, fn_addr, fn_out>>
  /\ UNCHANGED run_vars

NextCfg == ApplyCfg \/ ReapplyCfg

SpecCfg == InitCfg /\ [][NextCfg]_vars

\* The createCommand sequence of a document, << >> when it has none.
CmdOf(doc) ==
  IF HasField(doc, "createCommand") /\ doc.v["createCommand"].t = "arr"
  THEN doc.v["createCommand"].v ELSE << >>

\* Every field but staticIP and createCommand is as in the input, no field
\* is added or removed, staticIP is new_address exactly when it was
\* present, and createCommand keeps its length (a createCommand that is no
\* array, and a document that is no object, are returned as they are).
CfgFrame(old, new, addr) ==
  IF old.t # "obj" THEN new = old
  ELSE /\ new.t = "obj"
       /\ DOMAIN new.v = DOMAIN old.v
       /\ \A k \in DOMAIN old.v \ {"staticIP", "createCommand"} :
            new.v[k] = old.v[k]
       /\ "staticIP" \in DOMAIN old.v => new.v["staticIP"] = JStr(addr)
       /\ "createCommand" \in DOMAIN old.v =>
            IF old.v["createCommand"].t = "arr"
            THEN /\ new.v["createCommand"].t = "arr"
                 /\ Len(CmdOf(new)) = Len(CmdOf(old))
            ELSE new.v["createCommand"] = old.v["createCommand"]

\* C8 as stated, for a new_address that is not itself the flag token: the
\* element after every "--ip" of the input createCommand is new_address in
\* the output, and every other element is unchanged.
C8_AsStated ==
  (/\ fn_step \in {"patched", "repatched"}
   /\ fn_in.enc \in {"compact", "pretty"}
   /\ fn_addr # <<"--ip">>) =>
    /\ fn_out.ok
    /\ CfgFrame(fn_in.doc, fn_out.bytes.doc, fn_addr)
    /\ LET old == CmdOf(fn_in.doc)
           new == CmdOf(fn_out.bytes.doc)
       IN \A j \in 1..Len(old) :
            new[j] = IF j > 1 /\ old[j - 1] = JStr(<<"--ip">>)
                     THEN JStr(fn_addr) ELSE old[j]

\* C8 amended: the flag is looked for in the sequence as the left-to-right
\* scan finds it, that is, in the output: the element after every "--ip"
\* of the output createCommand is new_address, and every other element is
\* as in the input.
C8_FlagAsScanned ==
  (fn_step \in {"patched", "repatched"} /\ fn_in.enc \in {"compact", "pretty"}) =>
    /\ fn_out.ok
    /\ CfgFrame(fn_in.doc, fn_out.bytes.doc, fn_addr)
    /\ LET old == CmdOf(fn_in.doc)
           new == CmdOf(fn_out.bytes.doc)
       IN \A j \in 1..Len(old) :
            new[j] = IF j > 1 /\ new[j - 1] = JStr(<<"--ip">>)
                     THEN JStr(fn_addr) ELSE old[j]

\* C8 witness: the example of the specification, and a command line in
\* which the argument of --ip is itself "--ip".
C8_Witness ==
  /\ fn_step = "patched"
  /\ fn_addr = <<"10.1.1.9">>
  /\ fn_out.ok
  /\ HasField(fn_in.doc, "staticIP")
  /\ fn_out.bytes.doc.v["staticIP"] = JStr(<<"10.1.1.9">>)
  /\ CmdOf(fn_in.doc) = <<JStr(<<"podman">>), JStr(<<"--ip">>),
                          JStr(<<"192.168.12.2">>), JStr(<<"podman">>)>>
  /\ CmdOf(fn_out.bytes.doc) = <<JStr(<<"podman">>), JStr(<<"--ip">>),
                                 JStr(<<"10.1.1.9">>), JStr(<<"podman">>)>>

-----------------------------------------------------------------------------
(* The archive rewriter: run() *)

FILES_IMG_PATH == <<"checkpoint", "/", "files.img">>
NETWORK_STATUS_PATH == <<"network.status">>
CONFIG_DUMP_PATH == <<"config.dump">>

\* path.replace('\\', "/")
NormalizePath(path) ==
  [i \in 1..Len(path) |-> IF path[i] = "\\" THEN "/" ELSE path[i]]

\* The branch of the if / else-if chain an entry path selects.
Dispatch(path) ==
  IF NormalizePath(path) = FILES_IMG_PATH THEN "img"
  ELSE IF NormalizePath(path) = NETWORK_STATUS_PATH THEN "net"
  ELSE IF NormalizePath(path) = CONFIG_DUMP_PATH THEN "cfg"
  ELSE "other"

\* The checksum of a header: the sum over its fields, the checksum field
\* itself excluded.
CksumOf(h) ==
  TextLen(h.name) + TextLen(h.prefix) + h.size + h.mode + h.mtime + h.uid + Len(h.typeflag)

\* Header::set_size
set_size(h, n) == [h EXCEPT !.size = n]

\* Header::set_cksum
set_cksum(h) == [h EXCEPT !.cksum = CksumOf(h)]

\* The header of a matched entry: the clone of the input header with
\* set_size(len) and then set_cksum().
PatchedHeader(h, data) == set_cksum(set_size(h, ByteLen(data)))

\* The header of an unmatched entry: the clone with set_cksum() only.
CopiedHeader(h) == set_cksum(h)

\* Header::path of a header block: the name field, behind the prefix field
\* and a slash when the prefix is not empty.
HeaderPath(h) ==
  IF h.prefix = << >> THEN h.name ELSE h.prefix \o <<"/">> \o h.name

\* Builder::append(header, data): the header block and the payload join the
\* builder's stream. No long-name or extended-header record is written, so
\* the path of the member is the path of its header block.
AppendEntry(stream, h, data) ==
  Append(stream, [path |-> HeaderPath(h), header |-> h, data |-> data])

\* A well-formed archive file.
ArchiveFile(entries) ==
  [exists |-> TRUE, entries |-> entries, torn |-> FALSE, finished |-> TRUE]

\* The output file when only a part of the builder's stream has been written
\* to it: it holds at least what `file` holds, ends at or before the end of
\* the last appended entry, and has no terminator.
Truncations(file, stream) ==
  {[exists |-> TRUE, entries |-> SubSeq(stream, 1, k), torn |-> t,
    finished |-> FALSE] :
     <<k, t>> \in {kt \in (Len(file.entries)..Len(stream)) \X BOOLEAN :
                     /\ kt[2] => kt[1] < Len(stream)
                     /\ (kt[1] = Len(file.entries) /\ file.torn) => kt[2]}}

\* The output file after the builder is dropped. Builder's Drop calls
\* finish() and BufWriter's Drop flushes, both discarding the io::Result: the
\* file holds the whole stream and its terminator, or, when a write of the
\* flush fails, a truncation of it.
DropBuilder(file, stream) ==
  {ArchiveFile(stream)} \cup Truncations(file, stream)

\* A header block with a valid checksum.
MkHeader(name, prefix, size, mode, typeflag) ==
  set_cksum([name |-> name, prefix |-> prefix, size |-> size, mode |-> mode,
             mtime |-> 1700000000, uid |-> 1000, typeflag |-> typeflag,
             cksum |-> 0])

\* An entry as the archive reader yields it: entry.path() is the path,
\* entry.header() the header block, data the content read_to_end reads.
MkEntry(path, header, data) ==
  [path |-> path, header |-> header, data |-> data]

\* The entry of a plain member: the header block holds the path in its name
\* field and the length of the content in its size field.
PlainEntry(path, mode, typeflag, data) ==
  MkEntry(path, MkHeader(path, << >>, ByteLen(data), mode, typeflag), data)

MaxEntries == 3

RunAddrs == {<<"10.1.1.9">>}

RunImgDoc1 ==
  MkImgDoc(<<MkRec(JStr(S_INETSK),
                   MkIsk(JNum(2), JArr(<<JNum(167772165), JNum(0)>>))),
             MkRec(JStr(<<"REG">>), JMissing)>>)

RunImgDoc2 ==
  MkImgDoc(<<MkRec(JStr(S_INETSK),
                   MkIsk(JStr(S_INET), JArr(<<JStr(S_WILD4)>>)))>>)

\* A text with a quote, a backslash, control characters and non-ASCII
\* characters.
S_NOTE ==
  <<"say \"gr", "U+00FC", "U+00DF", "\" in C:\\pods", "U+0009", "5",
    "U+20AC", "U+0008", "U+001B", "[0m", "U+1F600">>

RunNetDoc ==
  JArr(<<SetKey(MkIface(JArr(<<MkIp(JStr(<<"192.168.12.2", SLASH, "24">>))>>)),
                "note", JStr(S_NOTE))>>)

RunCfgDoc ==
  MkConfig(JStr(<<"192.168.12.2">>),
           JArr(<<JStr(<<"podman">>), JStr(S_NOTE), JStr(S_IPFLAG),
                  JStr(<<"192.168.12.2">>)>>))

\* A path of 123 bytes.
LONG_PATH ==
  <<"checkpoint", "/",
    "dddddddddddddddddddddddddddddddddddddddddddddddddd"
      \o "dddddddddddddddddddddddddddddddddddddddddddddddddd",
    "/", "pages-2.img">>

\* The first 100 bytes of LONG_PATH: what the name field holds of a path
\* that a GNU long-name record or a PAX path record carries.
LONG_PATH_NAME ==
  <<"checkpoint", "/",
    "dddddddddddddddddddddddddddddddddddddddddddddddddd"
      \o "ddddddddddddddddddddddddddddddddddddddd">>

\* The entries of which input archives are made: plain members; a directory
\* whose header block splits the path into prefix and name (ustar); a
\* member with a long path, of which the header block holds the first
\* bytes; a GNU sparse member, of which the size field holds the bytes
\* stored in the archive and the content read is the expanded file.
EntryUniverse ==
  {PlainEntry(FILES_IMG_PATH, 384, "0", CritImage(RunImgDoc1, 34)),
   PlainEntry(<<"checkpoint", "\\", "files.img">>, 384, "0",
              CritImage(RunImgDoc2, 40)),
   PlainEntry(NETWORK_STATUS_PATH, 420, "0", Bytes("compact", RunNetDoc)),
   PlainEntry(NETWORK_STATUS_PATH, 420, "0",
              Bytes("raw", JStr(<<"not json">>))),
   PlainEntry(CONFIG_DUMP_PATH, 420, "0", Bytes("pretty", RunCfgDoc)),
   PlainEntry(<<"spec.dump">>, 420, "0", Bytes("compact", RunCfgDoc)),
   MkEntry(<<"var", "/", "lib", "/", "checkpoint", "/">>,
           MkHeader(<<"checkpoint", "/">>, <<"var", "/", "lib">>, 0, 493, "5"),
           Bytes("raw", JStr(<< >>))),
   MkEntry(LONG_PATH, MkHeader(LONG_PATH_NAME, << >>, 9, 384, "0"),
           Bytes("raw", JStr(<<"page data">>))),
   MkEntry(<<"checkpoint", "/", "pages-1.img">>,
           MkHeader(<<"checkpoint", "/", "pages-1.img">>, << >>, 4, 384, "S"),
           Bytes("raw", JStr(<<"page", "U+0000", "U+0000", "U+0000",
                               "U+0000">>)))}

ERR_DECODE == "crit decode failed"
ERR_ENCODE == "crit encode failed"
ERR_NOT_FOUND == "checkpoint/files.img not found in archive"
ERR_IO == "io error"

Init ==
  /\ FnIdle
  /\ pc = "start"
  /\ new_addr \in RunAddrs
  /\ orig \in SeqsUpTo(EntryUniverse, MaxEntries)
  /\ disk_tar = ArchiveFile(orig)
  /\ disk_new = NoFile
  /\ builder = << >>
  /\ idx = 0
  /\ content = Bytes("raw", JStr(<< >>))
  /\ decoded = NoDecoded
  /\ found_files_img = FALSE
  /\ calls = << >>
  /\ err = ""

\* The positions of run() at which the builder is alive.
BuilderLive ==
  pc \in {"loop", "img", "patch", "encode", "img_append", "net", "cfg",
          "other", "finish"}

\* Err(e) is returned: run() ends and its locals are dropped. A live builder
\* is dropped (tar_path.new is terminated and flushed, write errors
\* discarded) and the temporary directory is removed with decoded.json.
Fail(e) ==
  /\ pc' = "failed"
  /\ err' = e
  /\ disk_new' \in (IF BuilderLive THEN DropBuilder(disk_new, builder)
                    ELSE {disk_new})
  /\ decoded' = NoDecoded

\* The temporary directory is made, the archive is opened and the output
\* file tar_path.new is created (empty) under a buffered builder.
Open ==
  /\ pc = "start"
  /\ disk_new' = [exists |-> TRUE, entries |-> << >>, torn |-> FALSE,
                  finished |-> FALSE]
  /\ builder' = << >>
  /\ pc' = "loop"
  /\ UNCHANGED <<new_addr, orig, disk_tar, idx, content, decoded,
                 found_files_img, calls, err>>
  /\ UNCHANGED fn_vars

\* The BufWriter under the builder is full and writes buffered bytes of the
\* stream through to tar_path.new.
Spill ==
  /\ pc = "loop"
  /\ disk_new' \in Truncations(disk_new, builder) \ {disk_new}
  /\ UNCHANGED <<pc, new_addr, orig, disk_tar, builder, idx, content, decoded,
                 found_files_img, calls, err>>
  /\ UNCHANGED fn_vars

\* The next entry is taken from the iterator, its content is read and its
\* normalized path selects the branch.
ReadEntry ==
  /\ pc = "loop"
  /\ idx < Len(orig)
  /\ idx' = idx + 1
  /\ content' = orig[idx + 1].data
  /\ pc' = Dispatch(orig[idx + 1].path)
  /\ found_files_img' =
       (found_files_img \/ Dispatch(orig[idx + 1].path) = "img")
  /\ UNCHANGED <<new_addr, orig, disk_tar, disk_new, builder, decoded, calls,
                 err>>
  /\ UNCHANGED fn_vars

\* decoded.json is created anew (File::create truncates it) and crit decode
\* exits with status 0: decoded.json holds the document.
CritDecodeOk ==
  /\ pc = "img"
  /\ content.enc = "crit"
  /\ decoded' = content.doc
  /\ calls' = Append(calls, [stage |-> "decode", entry |-> idx, ok |-> TRUE])
  /\ pc' = "patch"
  /\ UNCHANGED <<new_addr, orig, disk_tar, disk_new, builder, idx, content,
                 found_files_img, err>>
  /\ UNCHANGED fn_vars

\* crit decode exits with another status.
CritDecodeFail ==
  /\ pc = "img"
  /\ calls' = Append(calls, [stage |-> "decode", entry |-> idx, ok |-> FALSE])
  /\ Fail(ERR_DECODE)
  /\ UNCHANGED <<new_addr, orig, disk_tar, builder, idx, content,
                 found_files_img>>
  /\ UNCHANGED fn_vars

\* decoded.json is parsed, patched and written back (compact).
PatchImage ==
  /\ pc = "patch"
  /\ decoded' = patch_files_img_json(decoded, new_addr).doc
  /\ pc' = "encode"
  /\ UNCHANGED <<new_addr, orig, disk_tar, disk_new, builder, idx, content,
                 found_files_img, calls, err>>
  /\ UNCHANGED fn_vars

\* crit encode exits with status 0: files.img.out holds the image of the
\* patched document, which is read into content.
CritEncodeOk ==
  /\ pc = "encode"
  /\ \E n \in CritLens : content' = CritImage(decoded, n)
  /\ calls' = Append(calls, [stage |-> "encode", entry |-> idx, ok |-> TRUE])
  /\ pc' = "img_append"
  /\ UNCHANGED <<new_addr, orig, disk_tar, disk_new, builder, idx, decoded,
                 found_files_img, err>>
  /\ UNCHANGED fn_vars

\* Mutant of CritEncodeFail: the entry is kept as it was and the run goes on.
CritEncodeFail_KeepOriginal ==
  /\ pc = "encode"
  /\ calls' = Append(calls, [stage |-> "encode", entry |-> idx, ok |-> FALSE])
  /\ pc' = "img_append"
  /\ UNCHANGED <<new_addr, orig, disk_tar, disk_new, builder, idx, content,
                 decoded, found_files_img, err>>
  /\ UNCHANGED fn_vars

\* crit encode exits with another status.
CritEncodeFail ==
  /\ pc = "encode"
  /\ calls' = Append(calls, [stage |-> "encode", entry |-> idx, ok |-> FALSE])
  /\ Fail(ERR_ENCODE)
  /\ UNCHANGED <<new_addr, orig, disk_tar, builder, idx, content,
                 found_files_img>>
  /\ UNCHANGED fn_vars

\* The re-encoded image is appended under the patched header.
AppendImage ==
  /\ pc = "img_append"
  /\ builder' = AppendEntry(builder,
                            PatchedHeader(orig[idx].header, content), content)
  /\ pc' = "loop"
  /\ UNCHANGED <<new_addr, orig, disk_tar, disk_new, idx, content, decoded,
                 found_files_img, calls, err>>
  /\ UNCHANGED fn_vars

\* The network.status branch: patch, then append, or return the parse error.
NetEntry ==
  /\ pc = "net"
  /\ LET patched == patch_network_status(content, new_addr)
     IN IF patched.ok
        THEN /\ builder' = AppendEntry(builder,
                             PatchedHeader(orig[idx].header, patched.bytes),
                             patched.bytes)
             /\ pc' = "loop"
             /\ UNCHANGED <<disk_new, decoded, err>>
        ELSE /\ Fail(patched.err)
             /\ builder' = builder
  /\ UNCHANGED <<new_addr, orig, disk_tar, idx, content, found_files_img,
                 calls>>
  /\ UNCHANGED fn_vars

\* The config.dump branch: patch, then append, or return the parse error.
CfgEntry ==
  /\ pc = "cfg"
  /\ LET patched == patch_config_dump(content, new_addr)
     IN IF patched.ok
        THEN /\ builder' = AppendEntry(builder,
                             PatchedHeader(orig[idx].header, patched.bytes),
                             patched.bytes)
             /\ pc' = "loop"
             /\ UNCHANGED <<disk_new, decoded, err>>
        ELSE /\ Fail(patched.err)
             /\ builder' = builder
  /\ UNCHANGED <<new_addr, orig, disk_tar, idx, content, found_files_img,
                 calls>>
  /\ UNCHANGED fn_vars

\* The else branch: the content is appended as it was read.
OtherEntry ==
  /\ pc = "other"
  /\ builder' = AppendEntry(builder, CopiedHeader(orig[idx].header), content)
  /\ pc' = "loop"
  /\ UNCHANGED <<new_addr, orig, disk_tar, disk_new, idx, content, decoded,
                 found_files_img, calls, err>>
  /\ UNCHANGED fn_vars

\* Mutant of LoopEnd: the archive is finished whether or not the image
\* entry was seen.
LoopEnd_NoCheck ==
  /\ pc = "loop"
  /\ idx = Len(orig)
  /\ pc' = "finish"
  /\ UNCHANGED <<new_addr, orig, disk_tar, disk_new, builder, idx, content,
                 decoded, found_files_img, calls, err>>
  /\ UNCHANGED fn_vars

\* The iterator is exhausted: the check of found_files_img.
LoopEnd ==
  /\ pc = "loop"
  /\ idx = Len(orig)
  /\ IF found_files_img
     THEN pc' = "finish" /\ UNCHANGED <<disk_new, decoded, err>>
     ELSE Fail(ERR_NOT_FOUND)
  /\ UNCHANGED <<new_addr, orig, disk_tar, builder, idx, content,
                 found_files_img, calls>>
  /\ UNCHANGED fn_vars

\* builder.finish() returns Ok (the terminator is in the stream) and
\* drop(builder) flushes the stream to tar_path.new; an error of that flush
\* is discarded inside the drop and run() goes on to the rename.
Finish ==
  /\ pc = "finish"
  /\ disk_new' \in DropBuilder(disk_new, builder)
  /\ pc' = "rename"
  /\ UNCHANGED <<new_addr, orig, disk_tar, builder, idx, content, decoded,
                 found_files_img, calls, err>>
  /\ UNCHANGED fn_vars

\* fs::rename(tar_path.new, tar_path), then Ok(()): the locals are dropped,
\* the temporary directory with them.
Rename ==
  /\ pc = "rename"
  /\ disk_tar' = disk_new
  /\ disk_new' = NoFile
  /\ decoded' = NoDecoded
  /\ pc' = "done"
  /\ UNCHANGED <<new_addr, orig, builder, idx, content, found_files_img,
                 calls, err>>
  /\ UNCHANGED fn_vars

\* Any of the fallible file and process operations (each `?`) returns Err.
IoError ==
  /\ pc \notin {"idle", "done", "failed"}
  /\ Fail(ERR_IO)
  /\ UNCHANGED <<new_addr, orig, disk_tar, builder, idx, content,
                 found_files_img, calls>>
  /\ UNCHANGED fn_vars

Next ==
  \/ Open
  \/ Spill
  \/ ReadEntry
  \/ CritDecodeOk
  \/ CritDecodeFail
  \/ PatchImage
  \/ CritEncodeOk
  \/ CritEncodeFail
  \/ AppendImage
  \/ NetEntry
  \/ CfgEntry
  \/ OtherEntry
  \/ LoopEnd
  \/ Finish
  \/ Rename
  \/ IoError

Spec == Init /\ [][Next]_vars

-----------------------------------------------------------------------------
(* The archive rewriter: properties *)

\* The entry paths that normalize to the image path.
ImagePaths ==
  {<<"checkpoint", "/", "files.img">>, <<"checkpoint", "\\", "files.img">>}

\* The entry paths that normalize to one of the three known paths.
MatchedPaths == ImagePaths \cup {<<"network.status">>, <<"config.dump">>}

PathsOf(entries) == [i \in 1..Len(entries) |-> entries[i].path]

\* C1: when run() has succeeded the archive holds the input's entries in
\* the input's order (the same sequence of paths), and every entry whose
\* normalized path is none of the three known paths has the input's payload.
C1_EntriesAndOrderKept ==
  pc = "done" =>
    /\ PathsOf(disk_tar.entries) = PathsOf(orig)
    /\ \A i \in 1..Len(orig) :
         orig[i].path \notin MatchedPaths =>
           disk_tar.entries[i].data = orig[i].data

\* The payload run() writes for an input entry e that is no image.
RewrittenData(e) ==
  IF e.path = <<"network.status">>
  THEN patch_network_status(e.data, new_addr).bytes
  ELSE IF e.path = <<"config.dump">>
  THEN patch_config_dump(e.data, new_addr).bytes
  ELSE e.data

\* out is what run() writes for input entry e: the patched payload (for the
\* image, an image of the patched document, of the length the codec gave
\* it) under the header run() builds for it.
IsRewritten(out, e) ==
  /\ IF e.path \in ImagePaths
     THEN /\ out.data.enc = "crit"
          /\ out.data.doc = patch_files_img_json(e.data.doc, new_addr).doc
          /\ out.data.len \in CritLens
     ELSE out.data = RewrittenData(e)
  /\ out.header = (IF e.path \in MatchedPaths
                   THEN PatchedHeader(e.header, out.data)
                   ELSE CopiedHeader(e.header))
  /\ out.path = HeaderPath(e.header)

\* file is the complete rewritten archive: every header and payload run()
\* appends, and the terminator.
CompleteRewritten(file) ==
  /\ file.exists /\ file.finished /\ ~file.torn
  /\ Len(file.entries) = Len(orig)
  /\ \A i \in 1..Len(orig) : IsRewritten(file.entries[i], orig[i])

\* tar_path holds the untouched original, or, once run() has returned Ok,
\* the complete rewritten archive.
C2_State ==
  \/ disk_tar = ArchiveFile(orig)
  \/ pc = "done" /\ err = "" /\ CompleteRewritten(disk_tar)

\* tar_path changes by the rename only, which follows the processing of
\* every entry, the sight of the image entry and the finish of the output;
\* an error ends the run where it occurs.
C2_Step ==
  /\ disk_tar' # disk_tar =>
       /\ pc = "rename" /\ pc' = "done"
       /\ err = "" /\ err' = ""
       /\ idx = Len(orig)
       /\ Len(builder) = Len(orig)
       /\ found_files_img
       /\ disk_new = ArchiveFile(builder)
       /\ disk_tar' = disk_new
  /\ err' # "" =>
       /\ pc' = "failed"
       /\ disk_tar' = ArchiveFile(orig)
       /\ builder' = builder
       /\ idx' = idx
  /\ pc = "failed" => UNCHANGED vars

\* C2: the content at tar_path changes only through the final rename, after
\* every entry was processed without error, the image entry was seen and
\* the output was finished; at every point tar_path holds the complete
\* original or the complete rewritten archive; the first error ends the
\* run with no further entry processed and no rename.
C2_AtomicReplace == [](C2_State) /\ [][C2_Step]_vars

NoImageEntry == \A i \in 1..Len(orig) : orig[i].path \notin ImagePaths

\* C3: without an image entry run() never reaches the finish or the
\* rename, tar_path keeps the original, and the not-found error is returned
\* after the full scan, every entry having been patched and appended, in
\* the input's order, to the builder of the temporary output.
C3_MissingImageFails ==
  /\ NoImageEntry =>
       /\ pc \notin {"finish", "rename", "done"}
       /\ ~found_files_img
       /\ disk_tar = ArchiveFile(orig)
       /\ (pc = "failed" /\ err = ERR_NOT_FOUND) =>
            /\ idx = Len(orig)
            /\ Len(builder) = Len(orig)
            /\ \A i \in 1..Len(orig) :
                 /\ builder[i].header.name = orig[i].header.name
                 /\ builder[i].data = RewrittenData(orig[i])
  /\ err = ERR_NOT_FOUND => NoImageEntry

\* C3 witness: status and config entries were patched into the temporary
\* output, which was closed when run() failed for want of the image entry.
C3_Witness ==
  /\ pc = "failed"
  /\ err = ERR_NOT_FOUND
  /\ PathsOf(orig) = <<<<"network.status">>, <<"config.dump">>>>
  /\ disk_new = ArchiveFile(builder)
  /\ Len(disk_new.entries) = 2
  /\ disk_new.entries[1].data # orig[1].data
  /\ disk_new.entries[2].data # orig[2].data
  /\ disk_tar = ArchiveFile(orig)

\* C4: a codec call that exits non-zero is the last codec call; run() has
\* failed with the error that names its stage, the image entry and the
\* entries after it are not appended, and tar_path keeps the original.
C4_CodecFailureFatal ==
  /\ \A k \in 1..Len(calls) :
       ~calls[k].ok =>
         /\ k = Len(calls)
         /\ pc = "failed"
         /\ err = (IF calls[k].stage = "decode"
                   THEN "crit decode failed" ELSE "crit encode failed")
         /\ idx = calls[k].entry
         /\ Len(builder) = idx - 1
         /\ Len(disk_new.entries) <= idx - 1
         /\ disk_tar = ArchiveFile(orig)
  /\ err \in {"crit decode failed", "crit encode failed"} =>
       (calls # << >> /\ ~calls[Len(calls)].ok)

\* C4 witness: crit encode failed on the second of three entries; the
\* temporary output was closed with the first entry alone.
C4_Witness ==
  /\ pc = "failed"
  /\ err = "crit encode failed"
  /\ Len(orig) = 3
  /\ idx = 2
  /\ Len(calls) = 2
  /\ calls[1].ok /\ ~calls[2].ok
  /\ disk_new.finished
  /\ Len(disk_new.entries) = 1

\* C9: every entry appended to the output has a header whose size is the
\* length of the payload written with it and whose checksum is the
\* checksum of the header with that size; its path, mode, mtime, owner and
\* type flag are those of the input entry at the same position.
C9_HeaderMatchesPayload ==
  \A i \in 1..Len(builder) :
    LET h == builder[i].header
    IN /\ h.size = ByteLen(builder[i].data)
       /\ h.cksum = CksumOf(h)
       /\ builder[i].path = orig[i].path
       /\ h.mode = orig[i].header.mode
       /\ h.mtime = orig[i].header.mtime
       /\ h.uid = orig[i].header.uid
       /\ h.typeflag = orig[i].header.typeflag

====
